---------------------------- MODULE Spec2Model ----------------------------
(***************************************************************************)
(* LIC receipt processing: the text classifier and the field extractors    *)
(* of utils/pdf_extractor.py, the financial-year validator, the FastAPI    *)
(* upload endpoint and the Airflow pipeline that drives them.              *)
(*                                                                         *)
(* A text is a sequence of one-character strings.  Regular expressions are *)
(* modelled by matchers that scan the text character by character, so the  *)
(* results depend on where labels, symbols, digits and separators sit.     *)
(***************************************************************************)
EXTENDS Integers, Sequences, FiniteSets, TLC

VARIABLES
    pc,               \* position of the call, request or pipeline run
    \* LICReceiptExtractor
    text,             \* the text the text source delivered (RawText)
    document_type,    \* result of extract_document_type
    premium_amount,   \* result of extract_premium_amount
    submission_date,  \* result of extract_submission_date
    date_parse_calls, \* the strings date_parse was called with, in order
    report,           \* what extract_all_data returned or raised
    \* validate_financial_year
    financial_year,   \* the label argument
    validation,       \* the (is_valid, message) tuple returned, or a raise
    \* upload endpoint and pipeline
    pdf_file,         \* content of input/lic_receipt.pdf, None when missing
    metadata_file,    \* content of input/metadata.json, None when missing
    request,          \* the POST /upload request being answered
    response,         \* the HTTP response to it
    task_state,       \* state of each task instance of the DAG run
    xcom              \* values the tasks pushed

extractVars  == <<text, document_type, premium_amount, submission_date,
                  date_parse_calls, report>>
validateVars == <<financial_year, validation>>
fileVars     == <<pdf_file, metadata_file>>
uploadVars   == <<request, response>>
dagVars      == <<task_state, xcom>>

vars == <<pc, extractVars, validateVars, fileVars, uploadVars, dagVars>>

\* Python's None; a record, so that it compares with the records that stand
\* for amounts, dates and reports.
None == [none |-> TRUE]

\* Values of the variables a specification does not use.
NoExtraction ==
    /\ document_type = None
    /\ premium_amount = None
    /\ submission_date = None
    /\ date_parse_calls = <<>>
    /\ report = None
NoValidation == financial_year = None /\ validation = None
NoFiles      == pdf_file = None /\ metadata_file = None
NoUpload     == request = None /\ response = None
NoDag        == task_state = None /\ xcom = None

(***************************************************************************)
(* Characters and strings                                                  *)
(***************************************************************************)
UpperChars == <<"A","B","C","D","E","F","G","H","I","J","K","L","M",
                "N","O","P","Q","R","S","T","U","V","W","X","Y","Z">>
LowerChars == <<"a","b","c","d","e","f","g","h","i","j","k","l","m",
                "n","o","p","q","r","s","t","u","v","w","x","y","z">>

UpperSet == {UpperChars[i] : i \in 1..Len(UpperChars)}
ToLower == [c \in UpperSet |->
               LowerChars[CHOOSE i \in 1..Len(UpperChars) : UpperChars[i] = c]]

\* str.lower() on one character: A-Z are folded, everything else is kept.
LowerChar(c) == IF c \in UpperSet THEN ToLower[c] ELSE c

\* str.lower()
Lower(s) == [i \in 1..Len(s) |-> LowerChar(s[i])]

\* `sub in s` of Python: sub occurs as a contiguous substring of s.
Contains(s, sub) ==
    \E i \in 1..(Len(s) - Len(sub) + 1) : SubSeq(s, i, i + Len(sub) - 1) = sub

RECURSIVE Concat(_)
\* Concatenation of a sequence of strings.
Concat(ss) == IF ss = <<>> THEN <<>> ELSE Head(ss) \o Concat(Tail(ss))

RECURSIVE SeqsUpTo(_, _)
\* All sequences over S of length at most n.
SeqsUpTo(S, n) ==
    IF n = 0 THEN {<<>>}
    ELSE LET shorter == SeqsUpTo(S, n - 1)
         IN  shorter \cup {Append(q, x) : q \in shorter, x \in S}

(***************************************************************************)
(* extract_document_type                                                   *)
(***************************************************************************)
lic_keywords == <<
    <<"l","i","f","e"," ","i","n","s","u","r","a","n","c","e"," ","c","o","r","p","o","r","a","t","i","o","n">>,
    <<"l","i","c"," ","o","f"," ","i","n","d","i","a">>,
    <<"p","r","e","m","i","u","m"," ","r","e","c","e","i","p","t">>,
    <<"p","o","l","i","c","y"," ","n","u","m","b","e","r">>,
    <<"p","r","e","m","i","u","m"," ","p","a","i","d">>,
    <<"r","e","c","e","i","p","t"," ","n","o">> >>

\* Number of keywords a classification needs: `if matches >= 3`.
MinKeywordMatches == 3

RECURSIVE CountMatches(_, _)
\* sum(1 for keyword in lic_keywords if keyword in text_lower)
CountMatches(keywords, text_lower) ==
    IF keywords = <<>> THEN 0
    ELSE (IF Contains(text_lower, Head(keywords)) THEN 1 ELSE 0)
         + CountMatches(Tail(keywords), text_lower)

\* Mutant: the text is searched as delivered, without lower-casing it.
extract_document_type_nolower(t) ==
    IF CountMatches(lic_keywords, t) >= MinKeywordMatches
    THEN "LIC_RECEIPT" ELSE "OTHER_DOCUMENT"

extract_document_type(t) ==
    LET text_lower == Lower(t)
        matches == CountMatches(lic_keywords, text_lower)
    IN  IF matches >= MinKeywordMatches THEN "LIC_RECEIPT" ELSE "OTHER_DOCUMENT"

(***************************************************************************)
(* Classification of texts assembled from receipt fragments                *)
(***************************************************************************)
\* Longest text of the classification runs, in fragments.
MaxClassifyFrags == 3

ClassifyFrags == {
    <<"L","i","f","e"," ","I","n","s","u","r","a","n","c","e"," ","C","o","r","p","o","r","a","t","i","o","n">>,
    <<"L","I","C"," ","o","f"," ","I","n","d","i","a">>,
    \* "Premium Receipt No": two overlapping marker phrases
    <<"P","r","e","m","i","u","m"," ","R","e","c","e","i","p","t"," ","N","o">>,
    <<"p","o","l","i","c","y"," ","n","u","m","b","e","r">>,
    <<"P","R","E","M","I","U","M"," ","P","A","I","D">>,
    \* "receipt n" and "o" make a marker phrase only when adjacent
    <<"r","e","c","e","i","p","t"," ","n">>,
    <<"o">>,
    <<" ">> }

ClassifyTexts == {Concat(fs) : fs \in SeqsUpTo(ClassifyFrags, MaxClassifyFrags)}

InitClassify ==
    /\ pc = "classify"
    /\ text \in ClassifyTexts
    /\ NoExtraction /\ NoValidation /\ NoFiles /\ NoUpload /\ NoDag

Classify ==
    /\ pc = "classify"
    /\ document_type' = extract_document_type(text)
    /\ pc' = "classified"
    /\ UNCHANGED <<text, premium_amount, submission_date, date_parse_calls, report>>
    /\ UNCHANGED <<validateVars, fileVars, uploadVars, dagVars>>

NextClassify == Classify

SpecClassify == InitClassify /\ [][NextClassify]_vars

\* The marker phrases that occur in the lower-cased text, as a set.
MarkersPresent(t) ==
    {k \in 1..Len(lic_keywords) : Contains(Lower(t), lic_keywords[k])}

\* C1: extract_document_type returns LIC_RECEIPT exactly when at least 3 of
\* the 6 marker phrases occur in the lower-cased text, each counted once
\* however often it repeats, and OTHER_DOCUMENT otherwise; it returns no
\* third value.
C1_ClassifyByDistinctMarkers ==
    pc = "classified" =>
        /\ document_type \in {"LIC_RECEIPT", "OTHER_DOCUMENT"}
        /\ document_type = "LIC_RECEIPT" <=> Cardinality(MarkersPresent(text)) >= 3

\* A mixed-case text with exactly three distinct markers was classified.
C1_Witness ==
    /\ pc = "classified"
    /\ Cardinality(MarkersPresent(text)) = 3
    /\ text # Lower(text)
    /\ document_type = "LIC_RECEIPT"

(***************************************************************************)
(* Regular-expression matching                                             *)
(***************************************************************************)
Digits == {"0","1","2","3","4","5","6","7","8","9"}
\* \s
Whitespace == {" ", "\n", "\t"}
\* \w
WordChars == {LowerChars[i] : i \in 1..Len(LowerChars)}
                 \cup {UpperChars[i] : i \in 1..Len(UpperChars)}
                 \cup Digits \cup {"_"}

\* The character at position i, or "" past the end of the string.
CharAt(s, i) == IF i >= 1 /\ i <= Len(s) THEN s[i] ELSE ""

\* The literal lit occurs in s at position i.
LitAt(s, i, lit) ==
    /\ i + Len(lit) - 1 <= Len(s)
    /\ lit # <<>> => s[i] = lit[1]
    /\ SubSeq(s, i, i + Len(lit) - 1) = lit

RECURSIVE RunEnd(_, _, _)
\* Greedy [set]*: the first position at or after i whose character is not in
\* set (Len(s) + 1 when the run reaches the end).
RunEnd(s, i, set) ==
    IF i <= Len(s) /\ s[i] \in set THEN RunEnd(s, i + 1, set) ELSE i

RECURSIVE RunEndMax(_, _, _, _)
\* Greedy [set]{0,n}: as RunEnd, taking at most n characters.
RunEndMax(s, i, set, n) ==
    IF n > 0 /\ i <= Len(s) /\ s[i] \in set
    THEN RunEndMax(s, i + 1, set, n - 1) ELSE i

NoMatch == [ok |-> FALSE, group |-> <<>>, end |-> 0]

\* ([0-9,]+\.?[0-9]*) at position i: group 1 and the position after it.
AmountTokenAt(s, i) ==
    LET e == RunEnd(s, i, Digits \cup {","})
        f == IF CharAt(s, e) = "." THEN e + 1 ELSE e
        g == RunEnd(s, f, Digits)
    IN  IF e > i THEN [ok |-> TRUE, group |-> SubSeq(s, i, g - 1), end |-> g]
        ELSE NoMatch

\* (?:rs\.?|₹)? at position i: the position after the optional currency mark.
CurrencyEnd(s, i) ==
    IF LitAt(s, i, <<"r","s">>)
    THEN (IF CharAt(s, i + 2) = "." THEN i + 3 ELSE i + 2)
    ELSE IF CharAt(s, i) = "₹" THEN i + 1 ELSE i

\* The amount patterns, in the order of the list `patterns`.  A labelled
\* pattern is  label[:\s]+(?:rs\.?|₹)?\s*([0-9,]+\.?[0-9]*) ; the symbol
\* patterns are  ₹\s*(...)  and  rs\.?\s*(...) .
patterns == <<
    [kind |-> "label",  lit |-> <<"p","r","e","m","i","u","m">>],
    [kind |-> "label",  lit |-> <<"a","m","o","u","n","t">>],
    [kind |-> "label",  lit |-> <<"p","a","i","d">>],
    [kind |-> "symbol", lit |-> <<"₹">>],
    [kind |-> "rs",     lit |-> <<"r","s">>] >>

\* re.match of one amount pattern at position i of s.
AmountMatchAt(p, s, i) ==
    IF ~LitAt(s, i, p.lit) THEN NoMatch
    ELSE LET a == i + Len(p.lit)
         IN  CASE p.kind = "label" ->
                    LET b == RunEnd(s, a, Whitespace \cup {":"})
                        c == CurrencyEnd(s, b)
                        d == RunEnd(s, c, Whitespace)
                    IN  IF b > a THEN AmountTokenAt(s, d) ELSE NoMatch
               [] p.kind = "symbol" ->
                    AmountTokenAt(s, RunEnd(s, a, Whitespace))
               [] p.kind = "rs" ->
                    LET b == IF CharAt(s, a) = "." THEN a + 1 ELSE a
                    IN  AmountTokenAt(s, RunEnd(s, b, Whitespace))

\* The least element of a non-empty set of positions.
Least(S) == CHOOSE j \in S : \A h \in S : j <= h

RECURSIVE AmountFindAllAmong(_, _, _, _)
\* The matches findall reports at or after position i, given the set `at` of
\* all positions where the pattern matches: the leftmost one, then those
\* after its end.
AmountFindAllAmong(p, s, at, i) ==
    LET rest == {j \in at : j >= i}
    IN  IF rest = {} THEN <<>>
        ELSE LET m == AmountMatchAt(p, s, Least(rest))
             IN  <<m.group>> \o AmountFindAllAmong(p, s, rest, m.end)

\* re.findall(pattern, s): group 1 of every match, scanning left to right
\* from position i and resuming after the end of each match.
AmountFindAll(p, s, i) ==
    AmountFindAllAmong(p, s, {j \in i..Len(s) : AmountMatchAt(p, s, j).ok}, i)

(***************************************************************************)
(* extract_premium_amount                                                  *)
(***************************************************************************)
\* str.replace(c, '')
Remove(s, c) == SelectSeq(s, LAMBDA x : x # c)

DigitValue(c) == CHOOSE v \in 0..9 : <<"0","1","2","3","4","5","6","7","8","9">>[v + 1] = c

RECURSIVE DigitsValue(_)
\* The number a string of decimal digits denotes (0 for the empty string).
DigitsValue(ds) ==
    IF ds = <<>> THEN 0
    ELSE 10 * DigitsValue(SubSeq(ds, 1, Len(ds) - 1)) + DigitValue(ds[Len(ds)])

RECURSIVE StripTrailingZeros(_)
StripTrailingZeros(ds) ==
    IF ds # <<>> /\ ds[Len(ds)] = "0"
    THEN StripTrailingZeros(SubSeq(ds, 1, Len(ds) - 1)) ELSE ds

\* float(str) on a string of digits with at most one ".": ValueError when it
\* holds no digit, else the number as integer part and fraction digits.
ParseFloat(str) ==
    LET dot   == IF \E i \in 1..Len(str) : str[i] = "."
                 THEN CHOOSE i \in 1..Len(str) : str[i] = "." ELSE Len(str) + 1
        whole == SubSeq(str, 1, dot - 1)
        frac  == SubSeq(str, dot + 1, Len(str))
    IN  IF whole = <<>> /\ frac = <<>>
        THEN [ok |-> FALSE, value |-> None]
        ELSE [ok |-> TRUE,
              value |-> [int |-> DigitsValue(whole), frac |-> StripTrailingZeros(frac)]]

RECURSIVE AmountFromPattern(_, _)
\* The loop `for pattern in patterns` from pattern k on.
AmountFromPattern(k, t) ==
    IF k > Len(patterns) THEN None
    ELSE LET matches == AmountFindAll(patterns[k], Lower(t), 1)
         IN  IF matches # <<>>
             THEN LET amount_str == Remove(matches[1], ",")
                      parsed == ParseFloat(amount_str)
                  IN  IF parsed.ok THEN parsed.value
                      ELSE AmountFromPattern(k + 1, t)   \* except ValueError: continue
             ELSE AmountFromPattern(k + 1, t)

RECURSIVE AmountFromOccurrence(_, _, _)
\* Mutant: an unparsable occurrence hands over to the next occurrence of the
\* same pattern before the next pattern is tried.
AmountFromOccurrence(k, j, t) ==
    IF k > Len(patterns) THEN None
    ELSE LET matches == AmountFindAll(patterns[k], Lower(t), 1)
         IN  IF j > Len(matches) THEN AmountFromOccurrence(k + 1, 1, t)
             ELSE LET parsed == ParseFloat(Remove(matches[j], ","))
                  IN  IF parsed.ok THEN parsed.value
                      ELSE AmountFromOccurrence(k, j + 1, t)

extract_premium_amount_next_occurrence(t) == AmountFromOccurrence(1, 1, t)

extract_premium_amount(t) == AmountFromPattern(1, t)

(***************************************************************************)
(* Amount extraction from texts assembled from receipt fragments           *)
(***************************************************************************)
\* Longest text of the amount runs, in fragments.
MaxAmountFrags == 3

AmountFrags == {
    \* "Premium: Rs. 12,345.50 "
    <<"P","r","e","m","i","u","m",":"," ","R","s","."," ","1","2",",","3","4","5",".","5","0"," ">>,
    \* "Amount: Rs 500, other figure 999 "
    <<"A","m","o","u","n","t",":"," ","R","s"," ","5","0","0",","," ","o","t","h","e","r"," ","f","i","g","u","r","e"," ","9","9","9"," ">>,
    \* "₹ 999 "
    <<"₹"," ","9","9","9"," ">>,
    \* "RS.1,0 "
    <<"R","S",".","1",",","0"," ">>,
    \* "premium: , "   (a match whose token holds no digit)
    <<"p","r","e","m","i","u","m",":"," ",","," ">>,
    \* "Paid:\n₹20.5 "
    <<"P","a","i","d",":","\n","₹","2","0",".","5"," ">>,
    \* "no numbers here "
    <<"n","o"," ","n","u","m","b","e","r","s"," ","h","e","r","e"," ">>,
    \* "premium 7 "
    <<"p","r","e","m","i","u","m"," ","7"," ">> }

AmountTexts == {Concat(fs) : fs \in SeqsUpTo(AmountFrags, MaxAmountFrags)}

InitAmount ==
    /\ pc = "amount"
    /\ text \in AmountTexts
    /\ NoExtraction /\ NoValidation /\ NoFiles /\ NoUpload /\ NoDag

ExtractAmount ==
    /\ pc = "amount"
    /\ premium_amount' = extract_premium_amount(text)
    /\ pc' = "amount_done"
    /\ UNCHANGED <<text, document_type, submission_date, date_parse_calls, report>>
    /\ UNCHANGED <<validateVars, fileVars, uploadVars, dagVars>>

NextAmount == ExtractAmount

SpecAmount == InitAmount /\ [][NextAmount]_vars

\* The positions of the lower-cased text where pattern k matches.
AmountMatchPositions(k, t) ==
    LET s == Lower(t)
    IN  {i \in 1..Len(s) : AmountMatchAt(patterns[k], s, i).ok}

\* Pattern k matches somewhere in the lower-cased text.
AmountHasMatch(k, t) == AmountMatchPositions(k, t) # {}

\* The token of the leftmost match of pattern k.
AmountFirstOccurrence(k, t) ==
    AmountMatchAt(patterns[k], Lower(t), Least(AmountMatchPositions(k, t))).group

\* The patterns whose first occurrence, commas stripped, parses as a decimal.
AmountUsable(t) ==
    {k \in 1..Len(patterns) :
        /\ AmountHasMatch(k, t)
        /\ ParseFloat(Remove(AmountFirstOccurrence(k, t), ",")).ok}

\* C2: the amount is the first occurrence, commas stripped and parsed, of
\* the earliest pattern in the order premium, amount, paid, ₹, rs whose
\* first occurrence parses; a first occurrence that fails to parse hands
\* over to the next pattern, never to a later occurrence of the same one;
\* when no pattern has a parsable first occurrence the result is absent.
C2_AmountFirstPatternFirstOccurrence ==
    pc = "amount_done" =>
        LET usable == AmountUsable(text)
        IN  IF usable = {}
            THEN premium_amount = None
            ELSE LET k == CHOOSE j \in usable : \A h \in usable : j <= h
                 IN  premium_amount =
                         ParseFloat(Remove(AmountFirstOccurrence(k, text), ",")).value

\* The premium pattern's first occurrence holds no digit while a later
\* occurrence of it is parsable, and only the ₹ pattern is usable: the
\* premium pattern is given up and the ₹ amount is returned.
C2_Witness ==
    /\ pc = "amount_done"
    /\ AmountHasMatch(1, text)
    /\ 1 \notin AmountUsable(text)
    /\ LET matches == AmountFindAll(patterns[1], Lower(text), 1)
       IN  \E i \in 2..Len(matches) : ParseFloat(Remove(matches[i], ",")).ok
    /\ AmountUsable(text) = {4}
    /\ premium_amount = [int |-> 999, frac |-> <<>>]

(***************************************************************************)
(* datetime                                                                *)
(***************************************************************************)
IsLeap(y) == y % 4 = 0 /\ (y % 100 # 0 \/ y % 400 = 0)

DaysInMonth(y, m) ==
    IF m = 2 THEN (IF IsLeap(y) THEN 29 ELSE 28)
    ELSE IF m \in {4, 6, 9, 11} THEN 30 ELSE 31

\* datetime(y, m, d, hh, mm, ss): ValueError outside the calendar, whose
\* years run from datetime.MINYEAR = 1 to datetime.MAXYEAR = 9999.
MakeDatetime(y, m, d, hh, mm, ss) ==
    IF /\ y >= 1 /\ y <= 9999
       /\ m >= 1 /\ m <= 12
       /\ d >= 1 /\ d <= DaysInMonth(y, m)
    THEN [ok |-> TRUE,
          value |-> [year |-> y, month |-> m, day |-> d,
                     hour |-> hh, minute |-> mm, second |-> ss, microsecond |-> 0]]
    ELSE [ok |-> FALSE, value |-> "ValueError"]

\* The moment date_parse is called: it supplies the century of a two-digit
\* year and the fields a string leaves out.
Today == [year |-> 2026, month |-> 11, day |-> 2]

(***************************************************************************)
(* dateutil.parser.parse(date_str, fuzzy=True) on the strings the date     *)
(* patterns capture: day-first and year-first are both off.                *)
(***************************************************************************)
MonthNames == <<
    <<<<"j","a","n">>, <<"j","a","n","u","a","r","y">>>>,
    <<<<"f","e","b">>, <<"f","e","b","r","u","a","r","y">>>>,
    <<<<"m","a","r">>, <<"m","a","r","c","h">>>>,
    <<<<"a","p","r">>, <<"a","p","r","i","l">>>>,
    <<<<"m","a","y">>, <<"m","a","y">>>>,
    <<<<"j","u","n">>, <<"j","u","n","e">>>>,
    <<<<"j","u","l">>, <<"j","u","l","y">>>>,
    <<<<"a","u","g">>, <<"a","u","g","u","s","t">>>>,
    <<<<"s","e","p">>, <<"s","e","p","t","e","m","b","e","r">>>>,
    <<<<"o","c","t">>, <<"o","c","t","o","b","e","r">>>>,
    <<<<"n","o","v">>, <<"n","o","v","e","m","b","e","r">>>>,
    <<<<"d","e","c">>, <<"d","e","c","e","m","b","e","r">>>> >>

\* parserinfo.month(word): the month's number, 0 when word names no month.
MonthNumber(word) ==
    IF word = <<"s","e","p","t">> THEN 9
    ELSE IF \E i \in 1..12 : word \in {MonthNames[i][1], MonthNames[i][2]}
         THEN CHOOSE i \in 1..12 : word \in {MonthNames[i][1], MonthNames[i][2]}
         ELSE 0

\* parserinfo.convertyear: a year below 100 given without its century is
\* placed within 50 years of the current year.
ConvertYear(y, century_specified) ==
    IF y < 100 /\ ~century_specified
    THEN LET c == y + (Today.year \div 100) * 100
         IN  IF c >= Today.year + 50 THEN c - 100
             ELSE IF c < Today.year - 50 THEN c + 100 ELSE c
    ELSE y

\* _ymd.append: a digit string handed over as text is labelled the year
\* when it has more than two characters, a number handed over as a value
\* when it exceeds 100.
IsYearString(ds) == Len(ds) > 2
IsYearValue(ds) == DigitsValue(ds) > 100

\* A field the string does not give.
Missing == -1

\* _ymd.resolve_ymd for three numbers a, b, c in text order, none of them a
\* month name.
ResolveNumeric(a, b, c) ==
    IF a > 31 THEN [year |-> a, month |-> b, day |-> c]
    ELSE IF a > 12 THEN [day |-> a, month |-> b, year |-> c]
    ELSE [month |-> a, day |-> b, year |-> c]

\* _ymd.resolve_ymd for number, month name, number; c_is_year: the last
\* number was labelled the year.
ResolveTextual(a, m, c, c_is_year) ==
    IF c_is_year THEN [day |-> a, month |-> m, year |-> c]
    ELSE IF a > 31 THEN [year |-> a, month |-> m, day |-> c]
    ELSE [day |-> a, month |-> m, year |-> c]

\* _ymd.resolve_ymd for two numbers a, c (the word between them was skipped
\* as unknown).
ResolveTwo(a, c, c_is_year) ==
    IF a > 31 THEN [year |-> a, month |-> c, day |-> Missing]
    ELSE IF c > 31 \/ c_is_year THEN [month |-> a, year |-> c, day |-> Missing]
    ELSE [month |-> a, day |-> c, year |-> Missing]

\* _build_naive: the datetime of the resolved fields; a missing year is
\* today's, a missing day today's capped to the month's length.
BuildDate(r, century_specified) ==
    LET y == IF r.year = Missing THEN Today.year
             ELSE ConvertYear(r.year, century_specified)
        d == IF r.day # Missing THEN r.day
             ELSE IF r.month >= 1 /\ r.month <= 12 /\ Today.day > DaysInMonth(y, r.month)
                  THEN DaysInMonth(y, r.month) ELSE Today.day
    IN  MakeDatetime(y, r.month, d, 0, 0, 0)

\* date_parse on a captured string: digits, [-/], digits, [-/], digits  or
\* digits, spaces, a word of letters, spaces, digits.  ok is FALSE where
\* dateutil raises ParserError, a ValueError.  With the same separator
\* twice the three numbers are handed over as text; otherwise the last
\* number is handed over as a value.
DateParse(str) ==
    LET i1 == RunEnd(str, 1, Digits)
        a  == SubSeq(str, 1, i1 - 1)
    IN  IF CharAt(str, i1) \in {"-", "/"}
        THEN LET i2 == RunEnd(str, i1 + 1, Digits)
                 b  == SubSeq(str, i1 + 1, i2 - 1)
                 c  == SubSeq(str, i2 + 1, Len(str))
                 c_is_year == IF CharAt(str, i1) = CharAt(str, i2)
                              THEN IsYearString(c) ELSE IsYearValue(c)
             IN  BuildDate(ResolveNumeric(DigitsValue(a), DigitsValue(b), DigitsValue(c)),
                           c_is_year)
        ELSE LET w1 == RunEnd(str, i1, Whitespace)
                 w2 == RunEnd(str, w1, WordChars \ Digits)
                 w3 == RunEnd(str, w2, Whitespace)
                 word == SubSeq(str, w1, w2 - 1)
                 c  == SubSeq(str, w3, Len(str))
                 m  == MonthNumber(word)
             IN  IF m # 0
                 THEN BuildDate(ResolveTextual(DigitsValue(a), m, DigitsValue(c),
                                               IsYearValue(c)),
                                IsYearValue(c))
                 ELSE BuildDate(ResolveTwo(DigitsValue(a), DigitsValue(c), IsYearValue(c)),
                                IsYearValue(c))

(***************************************************************************)
(* The date patterns                                                       *)
(***************************************************************************)
DateSeparators == {"-", "/"}

\* \d{1,2} at position i followed by a character of `next`: the position
\* after the digits, 0 when there is no such match.
OneOrTwoDigitsEnd(s, i, next) ==
    IF CharAt(s, i) \in Digits /\ CharAt(s, i + 1) \in Digits /\ CharAt(s, i + 2) \in next
    THEN i + 2
    ELSE IF CharAt(s, i) \in Digits /\ CharAt(s, i + 1) \in next THEN i + 1
    ELSE 0

\* (\d{1,2}[-/]\d{1,2}[-/]\d{2,4}) at position i.
NumericDateAt(s, i) ==
    LET a == OneOrTwoDigitsEnd(s, i, DateSeparators)
        b == IF a = 0 THEN 0 ELSE OneOrTwoDigitsEnd(s, a + 1, DateSeparators)
        e == IF b = 0 THEN 0 ELSE RunEndMax(s, b + 1, Digits, 4)
    IN  IF b # 0 /\ e - (b + 1) >= 2
        THEN [ok |-> TRUE, group |-> SubSeq(s, i, e - 1), end |-> e]
        ELSE NoMatch

MonthPrefixes == {MonthNames[i][1] : i \in 1..12}

\* (\d{1,2}\s+(jan|feb|...|dec)\w*\s+\d{2,4}) at position i.
TextualDateAt(s, i) ==
    LET a == OneOrTwoDigitsEnd(s, i, Whitespace)
        b == IF a = 0 THEN 0 ELSE RunEnd(s, a, Whitespace)
        c == IF b # 0 /\ \E m \in MonthPrefixes : LitAt(s, b, m)
             THEN RunEnd(s, b + 3, WordChars) ELSE 0
        d == IF c = 0 THEN 0 ELSE RunEnd(s, c, Whitespace)
        e == IF d = 0 \/ d = c THEN 0 ELSE RunEndMax(s, d, Digits, 4)
    IN  IF e # 0 /\ e - d >= 2
        THEN [ok |-> TRUE, group |-> SubSeq(s, i, e - 1), end |-> e]
        ELSE NoMatch

\* The list `date_patterns` with the textual pattern moved before the bare
\* numeric one.
date_patterns_textual_first == <<
    [kind |-> "label",   lit |-> <<"d","a","t","e">>],
    [kind |-> "label",   lit |-> <<"d","a","t","e","d">>],
    [kind |-> "label",   lit |-> <<"r","e","c","e","i","p","t"," ","d","a","t","e">>],
    [kind |-> "textual", lit |-> <<>>],
    [kind |-> "numeric", lit |-> <<>>] >>

\* The date patterns, in the order of the list `date_patterns`: three
\* labelled ones,  label[:\s]+(numeric date) , the bare numeric date and the
\* textual month-name date.
date_patterns == <<
    [kind |-> "label",   lit |-> <<"d","a","t","e">>],
    [kind |-> "label",   lit |-> <<"d","a","t","e","d">>],
    [kind |-> "label",   lit |-> <<"r","e","c","e","i","p","t"," ","d","a","t","e">>],
    [kind |-> "numeric", lit |-> <<>>],
    [kind |-> "textual", lit |-> <<>>] >>

\* re.match of one date pattern at position i of s; group is match[0] of
\* the tuple findall yields for the textual pattern.
DateMatchAt(p, s, i) ==
    CASE p.kind = "label" ->
            IF ~LitAt(s, i, p.lit) THEN NoMatch
            ELSE LET a == i + Len(p.lit)
                     b == RunEnd(s, a, Whitespace \cup {":"})
                 IN  IF b > a THEN NumericDateAt(s, b) ELSE NoMatch
      [] p.kind = "numeric" -> NumericDateAt(s, i)
      [] p.kind = "textual" -> TextualDateAt(s, i)

RECURSIVE DateFindAllAmong(_, _, _, _)
\* As AmountFindAllAmong, for a date pattern.
DateFindAllAmong(p, s, at, i) ==
    LET rest == {j \in at : j >= i}
    IN  IF rest = {} THEN <<>>
        ELSE LET m == DateMatchAt(p, s, Least(rest))
             IN  <<m.group>> \o DateFindAllAmong(p, s, rest, m.end)

\* re.findall(pattern, s): the captured date string of every match, scanning
\* left to right from position i and resuming after the end of each match.
DateFindAll(p, s, i) ==
    DateFindAllAmong(p, s, {j \in i..Len(s) : DateMatchAt(p, s, j).ok}, i)

(***************************************************************************)
(* extract_submission_date                                                 *)
(***************************************************************************)
RECURSIVE DateFromFirstMatchOnly(_, _, _, _)
\* Mutant: only matches[0] of each pattern is tried, as the amount loop does.
DateFromFirstMatchOnly(k, j, t, calls) ==
    IF k > Len(date_patterns) THEN [date |-> None, calls |-> calls]
    ELSE LET matches == DateFindAll(date_patterns[k], Lower(t), 1)
         IN  IF matches = <<>>
             THEN DateFromFirstMatchOnly(k + 1, 1, t, calls)
             ELSE LET parsed == DateParse(matches[1])
                  IN  IF parsed.ok
                      THEN [date |-> parsed.value, calls |-> Append(calls, matches[1])]
                      ELSE DateFromFirstMatchOnly(k + 1, 1, t, Append(calls, matches[1]))

RECURSIVE DateFromCandidate(_, _, _, _)
\* The loops `for pattern in date_patterns: for match in matches` from match
\* j of pattern k on; calls collects the arguments of date_parse.
DateFromCandidate(k, j, t, calls) ==
    IF k > Len(date_patterns) THEN [date |-> None, calls |-> calls]
    ELSE LET matches == DateFindAll(date_patterns[k], Lower(t), 1)
         IN  IF j > Len(matches)
             THEN DateFromCandidate(k + 1, 1, t, calls)
             ELSE LET parsed == DateParse(matches[j])
                  IN  IF parsed.ok
                      THEN [date |-> parsed.value, calls |-> Append(calls, matches[j])]
                      ELSE \* except (ValueError, TypeError): continue
                           DateFromCandidate(k, j + 1, t, Append(calls, matches[j]))

\* Mutant of extract_submission_date: one attempt per pattern.
extract_submission_date_first_match_only(t) == DateFromFirstMatchOnly(1, 1, t, <<>>)

extract_submission_date(t) == DateFromCandidate(1, 1, t, <<>>)

(***************************************************************************)
(* Date extraction from texts assembled from receipt fragments             *)
(***************************************************************************)
\* Longest text of the date runs, in fragments.
MaxDateFrags == 3

DateFrags == {
    \* "Date: 15/08/2023 "
    <<"D","a","t","e",":"," ","1","5","/","0","8","/","2","0","2","3"," ">>,
    \* "dated 31-02-2023 "   (a labelled date that does not parse)
    <<"d","a","t","e","d"," ","3","1","-","0","2","-","2","0","2","3"," ">>,
    \* "Receipt Date: 01/04/2023 "
    <<"R","e","c","e","i","p","t"," ","D","a","t","e",":"," ","0","1","/","0","4","/","2","0","2","3"," ">>,
    \* "12/13/2024 "
    <<"1","2","/","1","3","/","2","0","2","4"," ">>,
    \* "99/99/99 "   (a bare numeric date that does not parse)
    <<"9","9","/","9","9","/","9","9"," ">>,
    \* "5 March 2024 "
    <<"5"," ","M","a","r","c","h"," ","2","0","2","4"," ">>,
    \* "15 marx 2023 "   (a textual date that does not parse)
    <<"1","5"," ","m","a","r","x"," ","2","0","2","3"," ">>,
    \* "policy 7-7-77 "
    <<"p","o","l","i","c","y"," ","7","-","7","-","7","7"," ">> }

DateTexts == {Concat(fs) : fs \in SeqsUpTo(DateFrags, MaxDateFrags)}

InitDate ==
    /\ pc = "date"
    /\ text \in DateTexts
    /\ NoExtraction /\ NoValidation /\ NoFiles /\ NoUpload /\ NoDag

ExtractDate ==
    /\ pc = "date"
    /\ LET r == extract_submission_date(text)
       IN  /\ submission_date' = r.date
           /\ date_parse_calls' = r.calls
    /\ pc' = "date_done"
    /\ UNCHANGED <<text, document_type, premium_amount, report>>
    /\ UNCHANGED <<validateVars, fileVars, uploadVars, dagVars>>

NextDate == ExtractDate

SpecDate == InitDate /\ [][NextDate]_vars

\* The captured strings of pattern k in the lower-cased text, in text order.
DateMatches(k, t) == DateFindAll(date_patterns[k], Lower(t), 1)

\* The candidates of patterns from..to, pattern by pattern in list order.
DateCandidates(t, from, to) == Concat([k \in 1..(to - from + 1) |-> DateMatches(from + k - 1, t)])

\* The first candidate of cands that parses, None when none does.
FirstParsable(cands) ==
    LET good == {i \in 1..Len(cands) : DateParse(cands[i]).ok}
    IN  IF good = {} THEN None
        ELSE DateParse(cands[CHOOSE i \in good : \A h \in good : i <= h]).value

\* The bare numeric dates  D[-/]M[-/]Y  of the text, in text order.
NumericDatesIn(t) == DateFindAll([kind |-> "numeric", lit |-> <<>>], Lower(t), 1)

\* The textual month-name dates of the text, in text order.
TextualDatesIn(t) == DateFindAll([kind |-> "textual", lit |-> <<>>], Lower(t), 1)

\* The dates of the text that follow the label lit.
LabelledDatesIn(t, lit) == DateFindAll([kind |-> "label", lit |-> lit], Lower(t), 1)

\* The text has no labelled date, and both a parsable bare numeric date and
\* a parsable textual month-name date.
UnlabelledNumericAndTextual(t) ==
    /\ LabelledDatesIn(t, <<"d","a","t","e">>) = <<>>
    /\ LabelledDatesIn(t, <<"d","a","t","e","d">>) = <<>>
    /\ LabelledDatesIn(t, <<"r","e","c","e","i","p","t"," ","d","a","t","e">>) = <<>>
    /\ FirstParsable(NumericDatesIn(t)) # None
    /\ FirstParsable(TextualDatesIn(t)) # None

\* C3 as stated: the bare numeric pattern is tried last, so a text with no
\* labelled date that holds both a parsable textual month-name date and a
\* parsable bare numeric date yields the textual date.
C3_TextualBeforeBareNumeric ==
    (pc = "date_done" /\ UnlabelledNumericAndTextual(text)) =>
        submission_date = FirstParsable(TextualDatesIn(text))

\* C3 as amended: the bare numeric pattern is fourth and the textual
\* month-name pattern last, so such a text yields the bare numeric date.
C3_BareNumericBeforeTextual ==
    (pc = "date_done" /\ UnlabelledNumericAndTextual(text)) =>
        submission_date = FirstParsable(NumericDatesIn(text))

\* Such a text, with the textual date ahead of the numeric one in the text
\* and the two dates different, had its date extracted.
C3_Witness ==
    /\ pc = "date_done"
    /\ UnlabelledNumericAndTextual(text)
    /\ FirstParsable(NumericDatesIn(text)) # FirstParsable(TextualDatesIn(text))
    /\ TextualDateAt(Lower(text), 1).ok
    /\ submission_date = FirstParsable(NumericDatesIn(text))

\* C4: the candidates are walked pattern by pattern and, within a pattern,
\* in text order; date_parse is called on each candidate up to the first
\* that parses and on none after it, that candidate's date is returned, and
\* the result is absent exactly when no candidate parses.
C4_FirstParsableCandidate ==
    pc = "date_done" =>
        LET cands == DateCandidates(text, 1, Len(date_patterns))
            good  == {i \in 1..Len(cands) : DateParse(cands[i]).ok}
        IN  IF good = {}
            THEN submission_date = None /\ date_parse_calls = cands
            ELSE LET first == CHOOSE i \in good : \A h \in good : i <= h
                 IN  /\ submission_date = DateParse(cands[first]).value
                     /\ submission_date # None
                     /\ date_parse_calls = SubSeq(cands, 1, first)

\* The first candidate failed to parse, a later occurrence of the same
\* pattern parsed and was returned, and candidates after it were left alone.
C4_Witness ==
    /\ pc = "date_done"
    /\ \E k \in 1..Len(date_patterns) :
           LET matches == DateMatches(k, text)
           IN  /\ DateCandidates(text, 1, k - 1) = <<>>
               /\ Len(matches) >= 2
               /\ ~DateParse(matches[1]).ok
               /\ DateParse(matches[2]).ok
               /\ submission_date = DateParse(matches[2]).value
    /\ Len(date_parse_calls) = 2
    /\ Len(DateCandidates(text, 1, Len(date_patterns))) > 2

(***************************************************************************)
(* extract_all_data                                                        *)
(***************************************************************************)
\* Length of the raw_text excerpt: `text[:500]`.
ExcerptLen == 500

TruncationMarker == <<".", ".", ".">>

DigitChars == <<"0","1","2","3","4","5","6","7","8","9">>

RECURSIVE ZeroPadded(_, _)
\* n in decimal, zero-padded to at least width digits.
ZeroPadded(n, width) ==
    IF n < 10 /\ width <= 1 THEN <<DigitChars[n + 1]>>
    ELSE ZeroPadded(n \div 10, width - 1) \o <<DigitChars[(n % 10) + 1]>>

\* datetime.isoformat() of a datetime whose microsecond is 0.
IsoFormat(d) ==
    ZeroPadded(d.year, 4) \o <<"-">> \o ZeroPadded(d.month, 2) \o <<"-">>
        \o ZeroPadded(d.day, 2) \o <<"T">> \o ZeroPadded(d.hour, 2) \o <<":">>
        \o ZeroPadded(d.minute, 2) \o <<":">> \o ZeroPadded(d.second, 2)

\* A PDF file is None (no file), a record with unreadable = TRUE (a file
\* PyPDF2 cannot read) or a record holding the text of each of its pages.
ReadablePdf(pages) == [unreadable |-> FALSE, pages |-> pages]
UnreadablePdf == [unreadable |-> TRUE]

RECURSIVE PagesText(_)
\* extract_text_from_pdf: text += page.extract_text() + "\n" for each page.
PagesText(pages) ==
    IF pages = <<>> THEN <<>>
    ELSE Head(pages) \o <<"\n">> \o PagesText(Tail(pages))

\* Mutant: the marker is appended from 500 characters on.
RawTextExcerpt_from_500(t) ==
    IF Len(t) >= ExcerptLen THEN SubSeq(t, 1, ExcerptLen) \o TruncationMarker ELSE t

\* text[:500] + "..." if len(text) > 500 else text
RawTextExcerpt(t) ==
    IF Len(t) > ExcerptLen THEN SubSeq(t, 1, ExcerptLen) \o TruncationMarker ELSE t

Raised(exception) == [raised |-> exception]

\* The dictionary extract_all_data returns for a text; the ISO string of a
\* date is held in a record, so that it compares with None.
ReportOf(t) ==
    LET dtype  == extract_document_type(t)
        amount == extract_premium_amount(t)
        date   == extract_submission_date(t).date
    IN  [raised |-> "",
         document_type |-> dtype,
         premium_amount |-> amount,
         submission_date |-> IF date # None THEN [iso |-> IsoFormat(date)] ELSE None,
         raw_text |-> RawTextExcerpt(t)]

\* Mutant: the date is extracted only when an amount was found.
extract_all_data_date_after_amount(pdf) ==
    IF pdf = None THEN Raised("FileNotFoundError")
    ELSE IF pdf.unreadable THEN Raised("Exception: Error reading PDF")
    ELSE LET t == PagesText(pdf.pages)
             r == ReportOf(t)
         IN  IF r.premium_amount = None
             THEN [r EXCEPT !.submission_date = None] ELSE r

\* extract_all_data on the file at pdf_path: the dictionary, or the
\* exception that leaves the call.
extract_all_data(pdf) ==
    IF pdf = None THEN Raised("FileNotFoundError")
    ELSE IF pdf.unreadable THEN Raised("Exception: Error reading PDF")
    ELSE ReportOf(PagesText(pdf.pages))

(***************************************************************************)
(* Reports of PDFs assembled from receipt fragments and filler             *)
(***************************************************************************)
\* Longest first page of the report runs, in fragments.
MaxReportFrags == 2
\* The filler pages are between ExcerptLen - FillerWindow and ExcerptLen
\* characters long.
FillerWindow == 3

ReportFrags == {
    \* "Premium Paid: ₹500 "
    <<"P","r","e","m","i","u","m"," ","P","a","i","d",":"," ","₹","5","0","0"," ">>,
    \* "Receipt No 7 dated 15/08/2023 "
    <<"R","e","c","e","i","p","t"," ","N","o"," ","7"," ","d","a","t","e","d"," ","1","5","/","0","8","/","2","0","2","3"," ">>,
    \* "LIC of India policy number "
    <<"L","I","C"," ","o","f"," ","I","n","d","i","a"," ","p","o","l","i","c","y"," ","n","u","m","b","e","r"," ">>,
    \* "5 March 2024 "
    <<"5"," ","M","a","r","c","h"," ","2","0","2","4"," ">> }

Filler(n) == [i \in 1..n |-> "x"]

ReportPdfs ==
    LET first == {Concat(fs) : fs \in SeqsUpTo(ReportFrags, MaxReportFrags)}
    IN  {ReadablePdf(<<p>>) : p \in first}
        \cup {ReadablePdf(<<p, Filler(n)>>) :
                 p \in first, n \in (ExcerptLen - FillerWindow)..ExcerptLen}
        \cup {None, UnreadablePdf}

InitReport ==
    /\ pc = "extract"
    /\ text = <<>>
    /\ pdf_file \in ReportPdfs
    /\ metadata_file = None
    /\ NoExtraction /\ NoValidation /\ NoUpload /\ NoDag

ExtractAllData ==
    /\ pc = "extract"
    /\ report' = extract_all_data(pdf_file)
    /\ text' = IF pdf_file # None /\ ~pdf_file.unreadable
               THEN PagesText(pdf_file.pages) ELSE text
    /\ pc' = "extracted"
    /\ UNCHANGED <<document_type, premium_amount, submission_date, date_parse_calls>>
    /\ UNCHANGED <<validateVars, fileVars, uploadVars, dagVars>>

NextReport == ExtractAllData

SpecReport == InitReport /\ [][NextReport]_vars

\* The text source delivered a text: the PDF exists and could be read.
TextDelivered == pdf_file # None /\ ~pdf_file.unreadable

\* C7: the raw_text excerpt is the whole text when the text has at most 500
\* characters, and its first 500 characters followed by "..." when it has
\* more; it is never longer than 503 characters.
C7_ExcerptTruncatedAbove500 ==
    (pc = "extracted" /\ TextDelivered) =>
        /\ Len(text) <= 500 => report.raw_text = text
        /\ Len(text) > 500 =>
               /\ Len(report.raw_text) = 503
               /\ SubSeq(report.raw_text, 1, 500) = SubSeq(text, 1, 500)
               /\ SubSeq(report.raw_text, 501, 503) = <<".", ".", ".">>
        /\ Len(report.raw_text) <= 503

\* A text of exactly 500 characters was reported unchanged.
C7_Witness ==
    /\ pc = "extracted"
    /\ TextDelivered
    /\ Len(text) = 500
    /\ report.raw_text = text

\* Some candidate date string of the text parses.
SomeDateParses(t) ==
    LET cands == DateCandidates(t, 1, Len(date_patterns))
    IN  \E i \in 1..Len(cands) : DateParse(cands[i]).ok

\* C8: for every delivered text extract_all_data returns a report, never an
\* error; its document_type is LIC_RECEIPT or OTHER_DOCUMENT; its amount is
\* present exactly when an amount pattern has a parsable first occurrence
\* and its date exactly when a date candidate parses, whatever the other
\* field is.
C8_FieldsIndependentlyOptional ==
    (pc = "extracted" /\ TextDelivered) =>
        /\ report.raised = ""
        /\ report.document_type \in {"LIC_RECEIPT", "OTHER_DOCUMENT"}
        /\ report.premium_amount # None <=> AmountUsable(text) # {}
        /\ report.submission_date # None <=> SomeDateParses(text)

\* A report with a date and no amount.
C8_Witness ==
    /\ pc = "extracted"
    /\ TextDelivered
    /\ report.premium_amount = None
    /\ report.submission_date # None
    /\ report.submission_date.iso =
           <<"2","0","2","4","-","0","3","-","0","5","T","0","0",":","0","0",":","0","0">>
    /\ report.document_type = "OTHER_DOCUMENT"

(***************************************************************************)
(* validate_financial_year                                                 *)
(***************************************************************************)
\* Comparison of two datetimes: field by field, year first.
DatetimeLeq(a, b) ==
    LET fa == <<a.year, a.month, a.day, a.hour, a.minute, a.second, a.microsecond>>
        fb == <<b.year, b.month, b.day, b.hour, b.minute, b.second, b.microsecond>>
    IN  \/ fa = fb
        \/ \E i \in 1..7 : fa[i] < fb[i] /\ \A h \in 1..(i - 1) : fa[h] = fb[h]

RECURSIVE Split(_, _)
\* str.split(sep) for a one-character separator.
Split(str, sep) ==
    IF \E i \in 1..Len(str) : str[i] = sep
    THEN LET i == Least({j \in 1..Len(str) : str[j] = sep})
         IN  <<SubSeq(str, 1, i - 1)>> \o Split(SubSeq(str, i + 1, Len(str)), sep)
    ELSE <<str>>

\* str.strip()
Strip(str) ==
    LET keep == {i \in 1..Len(str) : str[i] \notin Whitespace}
    IN  IF keep = {} THEN <<>>
        ELSE SubSeq(str, Least(keep), CHOOSE j \in keep : \A h \in keep : h <= j)

\* int(str): surrounding whitespace and one sign are allowed, then digits,
\* single underscores between digits allowed; ValueError otherwise.
ParseInt(str) ==
    LET body   == Strip(str)
        signed == body # <<>> /\ body[1] \in {"+", "-"}
        digits == IF signed THEN Tail(body) ELSE body
        wellformed ==
            /\ digits # <<>>
            /\ \A i \in 1..Len(digits) : digits[i] \in Digits \cup {"_"}
            /\ digits[1] # "_" /\ digits[Len(digits)] # "_"
            /\ \A i \in 1..(Len(digits) - 1) : ~(digits[i] = "_" /\ digits[i + 1] = "_")
        magnitude == DigitsValue(Remove(digits, "_"))
    IN  IF wellformed
        THEN [ok |-> TRUE, value |-> IF signed /\ body[1] = "-" THEN 0 - magnitude ELSE magnitude]
        ELSE [ok |-> FALSE, value |-> 0]

\* datetime.strftime('%Y-%m-%d')
StrfDate(d) ==
    ZeroPadded(d.year, 4) \o <<"-">> \o ZeroPadded(d.month, 2) \o <<"-">> \o ZeroPadded(d.day, 2)

\* The tuple (is_valid, message) of a completed check.
Returned(is_valid, prefix, date, fy) ==
    [raised |-> "", is_valid |-> is_valid,
     message |-> [prefix |-> prefix, date |-> date, financial_year |-> fy]]

\* (False, f"Error validating financial year: {str(e)}")
ErrorReturned(exception) ==
    [raised |-> "", is_valid |-> FALSE,
     message |-> [prefix |-> "Error validating financial year", error |-> exception]]

\* Mutant: the closing moment of the window is left out.
WithinWindow_end_excluded(date, fy_start, fy_end) ==
    DatetimeLeq(fy_start, date) /\ DatetimeLeq(date, fy_end) /\ date # fy_end

\* fy_start <= submission_date <= fy_end
WithinWindow(date, fy_start, fy_end) ==
    DatetimeLeq(fy_start, date) /\ DatetimeLeq(date, fy_end)

\* The body of the try block: the tuple it returns, or the exception it
\* raises.
ValidateBody(date, fy) ==
    IF fy = None THEN Raised("AttributeError")            \* None.split
    ELSE LET year_parts == Split(fy.label, "-")
             start_year == ParseInt(year_parts[1])
         IN  IF ~start_year.ok THEN Raised("ValueError")
             ELSE IF Len(year_parts) < 2 THEN Raised("IndexError")
             ELSE IF ~ParseInt(year_parts[2]).ok THEN Raised("ValueError")
             ELSE LET fy_start == MakeDatetime(start_year.value, 4, 1, 0, 0, 0)
                      fy_end   == MakeDatetime(start_year.value + 1, 3, 31, 23, 59, 59)
                  IN  IF ~fy_start.ok \/ ~fy_end.ok THEN Raised("ValueError")
                      ELSE IF date = None THEN Raised("TypeError")
                      ELSE IF WithinWindow(date, fy_start.value, fy_end.value)
                           THEN Returned(TRUE, "Premium submission date .. is valid for FY",
                                         StrfDate(date), fy)
                           ELSE Returned(FALSE, "Premium submission date .. not in FY",
                                         StrfDate(date), fy)

\* Mutant: the handler is `except ValueError`.
validate_financial_year_except_value_error(date, fy) ==
    LET r == ValidateBody(date, fy)
    IN  IF r.raised = "ValueError" THEN ErrorReturned(r.raised) ELSE r

\* validate_financial_year: `except Exception` turns every exception of the
\* body into (False, "Error validating financial year: ...").
validate_financial_year(date, fy) ==
    LET r == ValidateBody(date, fy)
    IN  IF r.raised # "" THEN ErrorReturned(r.raised) ELSE r

(***************************************************************************)
(* Validation of dates around the financial-year boundaries                *)
(***************************************************************************)
Datetime(y, m, d, hh, mm, ss, us) ==
    [year |-> y, month |-> m, day |-> d,
     hour |-> hh, minute |-> mm, second |-> ss, microsecond |-> us]

ValidationYears == {2023, 2024, 9999}

ValidationDates ==
    UNION {{Datetime(y, 3, 31, 23, 59, 59, 0),
            Datetime(y, 3, 31, 23, 59, 59, 1),
            Datetime(y, 3, 31, 0, 0, 0, 0),
            Datetime(y, 4, 1, 0, 0, 0, 0),
            Datetime(y, 4, 1, 0, 0, 0, 1),
            Datetime(y, 8, 15, 10, 30, 0, 0)} : y \in ValidationYears}
        \cup {Datetime(1, 2, 1, 0, 0, 0, 0), None}

Label(chars) == [label |-> chars]

ValidationLabels == {
    Label(<<"2","0","2","3","-","2","4">>),
    Label(<<"2","0","2","3","-","9","9">>),
    Label(<<"2","0","2","3","-","2","4","-","x">>),
    Label(<<"2","0","2","4","-","2","5">>),
    Label(<<" ","2","_","0","2","2","-","+","2","3">>),
    Label(<<"9","9","9","8","-","9","9">>),
    Label(<<"9","9","9","9","-","0","0">>),
    Label(<<"0","0","0","0","-","0","1">>),
    Label(<<"2","0","2","3","-","2","X">>),
    Label(<<"2","0","2","3">>),
    Label(<<"2","0","2","3","-">>),
    Label(<<"-","2","0","2","3","-","2","4">>),
    Label(<<"F","Y","-","2","4">>),
    Label(<<>>),
    None }

InitValidate ==
    /\ pc = "validate"
    /\ text = <<>>
    /\ document_type = None
    /\ premium_amount = None
    /\ submission_date \in ValidationDates
    /\ date_parse_calls = <<>>
    /\ report = None
    /\ financial_year \in ValidationLabels
    /\ validation = None
    /\ NoFiles /\ NoUpload /\ NoDag

Validate ==
    /\ pc = "validate"
    /\ validation' = validate_financial_year(submission_date, financial_year)
    /\ pc' = "validated"
    /\ UNCHANGED <<extractVars, financial_year, fileVars, uploadVars, dagVars>>

NextValidate == Validate

SpecValidate == InitValidate /\ [][NextValidate]_vars

\* The label splits on "-" into at least two parts of which the first two
\* parse as integers.
TwoIntegerComponents(fy) ==
    /\ fy # None
    /\ Len(Split(fy.label, "-")) >= 2
    /\ ParseInt(Split(fy.label, "-")[1]).ok
    /\ ParseInt(Split(fy.label, "-")[2]).ok

\* The leading component of the label.
StartYear(fy) == ParseInt(Split(fy.label, "-")[1]).value

\* d lies in [y-04-01T00:00:00, (y+1)-03-31T23:59:59]: from April to
\* December of y, or from January to March of y + 1 and not in the last
\* second's fraction.
InFinancialYear(d, y) ==
    \/ d.year = y /\ d.month >= 4
    \/ /\ d.year = y + 1 /\ d.month <= 3
       /\ ~(d.month = 3 /\ d.day = 31 /\ d.hour = 23 /\ d.minute = 59
            /\ d.second = 59 /\ d.microsecond > 0)

\* C5 as stated: for every date and every label whose two components parse
\* as integers, the validity is true exactly when the date lies in the
\* closed window from April 1 of the start year to March 31, 23:59:59 of
\* the next year; the suffix plays no part.
C5_ValidIffInWindow ==
    (pc = "validated" /\ submission_date # None /\ TwoIntegerComponents(financial_year)) =>
        /\ validation.raised = ""
        /\ validation.is_valid <=> InFinancialYear(submission_date, StartYear(financial_year))

\* C5 as amended: the same for start years 1 to 9998, whose window ends are
\* both datetimes; for any other start year the validity is false.
C5_ValidIffInWindowOfRepresentableYear ==
    (pc = "validated" /\ submission_date # None /\ TwoIntegerComponents(financial_year)) =>
        /\ validation.raised = ""
        /\ IF StartYear(financial_year) >= 1 /\ StartYear(financial_year) <= 9998
           THEN validation.is_valid
                    <=> InFinancialYear(submission_date, StartYear(financial_year))
           ELSE ~validation.is_valid

\* A date on the closing second of the window is valid under a label whose
\* suffix is not the next year's.
C5_Witness ==
    /\ pc = "validated"
    /\ submission_date = Datetime(2024, 3, 31, 23, 59, 59, 0)
    /\ financial_year = Label(<<"2","0","2","3","-","9","9">>)
    /\ validation.is_valid

\* C6: the call never raises; for a label that does not parse into two
\* integer components, and any date argument including None, it returns
\* False with a message that starts "Error validating financial year".
C6_MalformedLabelReported ==
    pc = "validated" =>
        /\ validation.raised = ""
        /\ validation.is_valid \in BOOLEAN
        /\ ~TwoIntegerComponents(financial_year) =>
               /\ ~validation.is_valid
               /\ validation.message.prefix = "Error validating financial year"

\* The label "2023" has no second component (an IndexError in the body)
\* and the date is absent.
C6_Witness ==
    /\ pc = "validated"
    /\ financial_year = Label(<<"2","0","2","3">>)
    /\ submission_date = None
    /\ validation.raised = ""
    /\ ~validation.is_valid
    /\ validation.message.prefix = "Error validating financial year"

(***************************************************************************)
(* POST /upload and DELETE /clear of the FastAPI application               *)
(***************************************************************************)
HTTPException(status_code, detail) ==
    [raised |-> "HTTPException", status_code |-> status_code,
     status_text |-> IF status_code = 400 THEN "400: " ELSE "500: ", detail |-> detail]

\* not financial_year or len(financial_year) != 7 or financial_year[4] != '-'
BadFinancialYearFormat(fy) == fy = <<>> \/ Len(fy) # 7 \/ fy[5] # "-"

\* The body of the try block of upload_lic_receipt: the exception it raises,
\* or the files it writes and the UploadResponse it returns.
UploadBody(req) ==
    IF req.content_type # "application/pdf"
    THEN HTTPException(400, <<"File must be a PDF">>)
    ELSE IF BadFinancialYearFormat(req.financial_year)
    THEN HTTPException(400, <<"Financial year must be in format YYYY-YY">>)
    ELSE [raised |-> "",
          pdf |-> req.file,
          metadata |-> [corrupt |-> FALSE,
                        financial_year |-> Label(req.financial_year),
                        original_filename |-> req.filename],
          status_code |-> 200,
          detail |-> <<"File uploaded successfully">>]

\* upload_lic_receipt: `except Exception` catches every exception of the
\* body, the HTTPException(400) of the two checks included, and raises
\* HTTPException(500, "Upload failed: " + str(e)); str(e) of an
\* HTTPException is its status code and detail.
upload_lic_receipt(req) ==
    LET r == UploadBody(req)
    IN  IF r.raised # ""
        THEN HTTPException(500, <<"Upload failed: ", r.status_text>> \o r.detail)
        ELSE r

UploadContentTypes == {"application/pdf", "text/plain"}

UploadFinancialYears == {
    <<"2","0","2","3","-","2","4">>,
    <<"2","0","2","3","-","2","X">>,
    <<"2","0","2","3","2","4">>,
    <<"2","0","2","3","/","2","0","2","4">>,
    <<"2","0","2","3","/","2","4">> }

\* The uploaded files: two receipts and a file that is no PDF.
UploadFiles == {
    ReadablePdf(<<
        <<"P","r","e","m","i","u","m"," ","P","a","i","d",":"," ","₹","5","0","0"," ">>
        \o <<"L","I","C"," ","o","f"," ","I","n","d","i","a"," ","p","o","l","i","c","y"," ","n","u","m","b","e","r"," ">>
        \o <<"R","e","c","e","i","p","t"," ","N","o"," ","7"," ","d","a","t","e","d"," ","1","5","/","0","8","/","2","0","2","3"," ">> >>),
    ReadablePdf(<< <<"5"," ","M","a","r","c","h"," ","2","0","2","4"," ">> >>),
    UnreadablePdf }

UploadRequests ==
    [content_type : UploadContentTypes,
     financial_year : UploadFinancialYears,
     file : UploadFiles,
     filename : {"receipt.pdf"}]

InitUpload ==
    /\ pc = "serving"
    /\ text = <<>>
    /\ NoExtraction /\ NoValidation /\ NoFiles /\ NoUpload /\ NoDag

\* One POST /upload request, answered.
Upload(req) ==
    /\ pc = "serving"
    /\ LET r == upload_lic_receipt(req)
       IN  /\ request' = req
           /\ response' = [status_code |-> r.status_code, detail |-> r.detail]
           /\ pdf_file' = IF r.raised = "" THEN r.pdf ELSE pdf_file
           /\ metadata_file' = IF r.raised = "" THEN r.metadata ELSE metadata_file
    /\ UNCHANGED <<pc, extractVars, validateVars, dagVars>>

\* One DELETE /clear request: both files are removed when they exist.
ClearInputFiles ==
    /\ pc = "serving"
    /\ pdf_file # None \/ metadata_file # None
    /\ pdf_file' = None
    /\ metadata_file' = None
    /\ request' = None
    /\ response' = [status_code |-> 200, detail |-> <<"Files cleared">>]
    /\ UNCHANGED <<pc, extractVars, validateVars, dagVars>>

NextUpload ==
    \/ \E req \in UploadRequests : Upload(req)
    \/ ClearInputFiles

SpecUpload == InitUpload /\ [][NextUpload]_vars

\* The request just answered is one the endpoint's checks reject.
RejectedRequest(req) ==
    /\ req # None
    /\ \/ req.content_type # "application/pdf"
       \/ req.financial_year = <<>>
       \/ Len(req.financial_year) # 7
       \/ req.financial_year[5] # "-"

\* C9: a request whose content type is not application/pdf, or whose
\* financial_year is not 7 characters with "-" at index 4, is answered with
\* status 400 and the detail of the failed check, and leaves both stored
\* files as they were.
C9_RejectedWith400 ==
    [][RejectedRequest(request') =>
          /\ response'.status_code = 400
          /\ response'.detail \in {<<"File must be a PDF">>,
                                   <<"Financial year must be in format YYYY-YY">>}
          /\ pdf_file' = pdf_file
          /\ metadata_file' = metadata_file]_<<request, response, pdf_file, metadata_file>>

(***************************************************************************)
(* The DAG lic_receipt_processing                                          *)
(***************************************************************************)
\* check_files_task >> extract_data_task >> validate_document_task
\*     >> validate_financial_year_task >> cleanup_task
Tasks == <<"check_files_exist", "extract_pdf_data", "validate_document",
           "validate_financial_year", "cleanup_processed_files">>

TaskIds == {Tasks[i] : i \in 1..Len(Tasks)}

\* The task upstream of Tasks[i], for i > 1.
Upstream(i) == Tasks[i - 1]

\* A PythonOperator with the default trigger rule runs when its upstream
\* task succeeded and it has not run, or waits for its one retry
\* (default_args: retries = 1).
Runnable(i) ==
    /\ pc = "dag_run"
    /\ task_state[Tasks[i]] \in {"none", "up_for_retry"}
    /\ i > 1 => task_state[Upstream(i)] = "success"

\* The state of a task after a run of its callable: success when it
\* returns, whatever it returns; up_for_retry after the first exception and
\* failed after the second.
AfterRun(i, raised) ==
    [task_state EXCEPT ![Tasks[i]] =
        IF ~raised THEN "success"
        ELSE IF task_state[Tasks[i]] = "none" THEN "up_for_retry" ELSE "failed"]

\* datetime.fromisoformat of YYYY-MM-DDTHH:MM:SS
FromIsoFormat(str) ==
    Datetime(DigitsValue(SubSeq(str, 1, 4)), DigitsValue(SubSeq(str, 6, 7)),
             DigitsValue(SubSeq(str, 9, 10)), DigitsValue(SubSeq(str, 12, 13)),
             DigitsValue(SubSeq(str, 15, 16)), DigitsValue(SubSeq(str, 18, 19)), 0)

\* check_files_exist: returns whether both files exist; the return value is
\* pushed to XCom and decides nothing.
RunCheckFilesExist ==
    /\ Runnable(1)
    /\ LET pdf_exists == pdf_file # None
           metadata_exists == metadata_file # None
       IN  xcom' = [xcom EXCEPT !.check_files_exist =
                        [returned |-> pdf_exists /\ metadata_exists]]
    /\ task_state' = AfterRun(1, FALSE)
    /\ UNCHANGED <<pc, extractVars, validateVars, fileVars, uploadVars>>

\* extract_pdf_data: pushes the report, or re-raises what extract_all_data
\* raised.
RunExtractPdfData ==
    /\ Runnable(2)
    /\ \E extracted_data \in {extract_all_data(pdf_file)} :
           /\ task_state' = AfterRun(2, extracted_data.raised # "")
           /\ xcom' = IF extracted_data.raised = ""
                      THEN [xcom EXCEPT !.extracted_data = extracted_data]
                      ELSE xcom
    /\ UNCHANGED <<pc, extractVars, validateVars, fileVars, uploadVars>>

\* validate_document
RunValidateDocument ==
    /\ Runnable(3)
    /\ xcom' = IF xcom.extracted_data = None THEN xcom
               ELSE [xcom EXCEPT !.is_valid_document =
                        [returned |-> xcom.extracted_data.document_type = "LIC_RECEIPT"]]
    /\ task_state' = AfterRun(3, FALSE)
    /\ UNCHANGED <<pc, extractVars, validateVars, fileVars, uploadVars>>

\* validate_financial_year_task: returns early when the document is not a
\* LIC receipt, when the metadata cannot be loaded or when no date was
\* extracted; otherwise validates the date against the metadata's label.
RunValidateFinancialYear ==
    /\ Runnable(4)
    /\ LET is_valid_document == xcom.is_valid_document # None
                                    /\ xcom.is_valid_document.returned
           metadata_loaded == metadata_file # None /\ ~metadata_file.corrupt
           has_date == xcom.extracted_data.submission_date # None
       IN  IF is_valid_document /\ metadata_loaded /\ has_date
           THEN LET date == FromIsoFormat(xcom.extracted_data.submission_date.iso)
                IN  /\ submission_date' = date
                    /\ financial_year' = metadata_file.financial_year
                    /\ validation' = validate_financial_year(date, metadata_file.financial_year)
           ELSE UNCHANGED <<submission_date, financial_year, validation>>
    /\ task_state' = AfterRun(4, FALSE)
    /\ UNCHANGED <<pc, text, document_type, premium_amount, date_parse_calls, report>>
    /\ UNCHANGED <<xcom, fileVars, uploadVars>>

\* cleanup_processed_files: prints the paths, deletes nothing.
RunCleanupProcessedFiles ==
    /\ Runnable(5)
    /\ task_state' = AfterRun(5, FALSE)
    /\ UNCHANGED <<pc, xcom, extractVars, validateVars, fileVars, uploadVars>>

\* The scheduler marks a task whose upstream task failed.
MarkUpstreamFailed(i) ==
    /\ pc = "dag_run"
    /\ i > 1
    /\ task_state[Tasks[i]] = "none"
    /\ task_state[Upstream(i)] \in {"failed", "upstream_failed"}
    /\ task_state' = [task_state EXCEPT ![Tasks[i]] = "upstream_failed"]
    /\ UNCHANGED <<pc, xcom, extractVars, validateVars, fileVars, uploadVars>>

Metadata(fy) ==
    [corrupt |-> FALSE, financial_year |-> Label(fy), original_filename |-> "receipt.pdf"]

DagMetadataFiles == {
    None,
    [corrupt |-> TRUE],
    Metadata(<<"2","0","2","3","-","2","4">>),
    Metadata(<<"2","0","2","4","-","2","5">>),
    Metadata(<<"2","0","2","3","-","2","X">>) }

InitDag ==
    /\ pc = "dag_run"
    /\ text = <<>>
    /\ NoExtraction /\ NoValidation /\ NoUpload
    /\ pdf_file \in UploadFiles \cup {None}
    /\ metadata_file \in DagMetadataFiles
    /\ task_state = [t \in TaskIds |-> "none"]
    /\ xcom = [check_files_exist |-> None, extracted_data |-> None,
               is_valid_document |-> None]

NextDag ==
    \/ RunCheckFilesExist
    \/ RunExtractPdfData
    \/ RunValidateDocument
    \/ RunValidateFinancialYear
    \/ RunCleanupProcessedFiles
    \/ \E i \in 1..Len(Tasks) : MarkUpstreamFailed(i)

SpecDag == InitDag /\ [][NextDag]_vars

\* check_files_exist ran and found the PDF or the metadata file missing.
FilesFoundMissing ==
    /\ task_state["check_files_exist"] = "success"
    /\ xcom.check_files_exist = [returned |-> FALSE]

\* C10: when check_files_exist finds the PDF or the metadata file missing,
\* extract_pdf_data and every later task do not run in that pipeline run.
C10_MissingFilesSkipProcessing ==
    FilesFoundMissing =>
        \A i \in 2..Len(Tasks) : task_state[Tasks[i]] \in {"none", "skipped", "upstream_failed"}
=============================================================================
